---- MODULE Spec2Model ----
(***************************************************************************)
(* Chartink logger: scrape -> transform -> sync into a Google spreadsheet. *)
(* Two variants of the pipeline live in the repository: the modular one    *)
(* (extract.py, transform.py, load.py) and the monolith main.py (run_bot). *)
(* The variable impl says which of the two is deployed.                    *)
(*                                                                         *)
(* Text is a sequence of one-character strings, so that strip, substring   *)
(* search and number formatting are computed, not assumed.                 *)
(***************************************************************************)
EXTENDS Integers, Sequences, FiniteSets, TLC

\* ------------------------------------------------------------------ bounds
MaxRuns == 2      \* pipeline runs per behaviour
MaxBatch == 3     \* most rows of one scraped table
MaxFaults == 1    \* store calls that fail per behaviour

\* ------------------------------------------------------------------- text
Min(a, b) == IF a < b THEN a ELSE b
Max(a, b) == IF a > b THEN a ELSE b

RECURSIVE lstrip(_, _)
lstrip(s, chars) ==
    IF s # <<>> /\ Head(s) \in chars THEN lstrip(Tail(s), chars) ELSE s

RECURSIVE rstrip(_, _)
rstrip(s, chars) ==
    IF s # <<>> /\ s[Len(s)] \in chars
    THEN rstrip(SubSeq(s, 1, Len(s) - 1), chars)
    ELSE s

\* str.strip() with no argument: whitespace off both ends
strip(s) == rstrip(lstrip(s, {" "}), {" "})

\* position of the first occurrence of needle in s, 0 when absent (str.find + 1)
find(s, needle) ==
    LET hits == {p \in 1..(Len(s) - Len(needle) + 1) :
                    SubSeq(s, p, p + Len(needle) - 1) = needle}
    IN IF hits = {} THEN 0 ELSE CHOOSE p \in hits : \A q \in hits : p <= q

\* the Python test  needle in s
contains(s, needle) == find(s, needle) # 0

UpperCase == <<"A","B","C","D","E","F","G","H","I","J","K","L","M",
               "N","O","P","Q","R","S","T","U","V","W","X","Y","Z">>
LowerCase == <<"a","b","c","d","e","f","g","h","i","j","k","l","m",
               "n","o","p","q","r","s","t","u","v","w","x","y","z">>

lower(s) ==
    [p \in 1..Len(s) |->
        IF \E k \in 1..26 : UpperCase[k] = s[p]
        THEN LowerCase[CHOOSE k \in 1..26 : UpperCase[k] = s[p]]
        ELSE s[p]]

Digits == <<"0","1","2","3","4","5","6","7","8","9">>
Digit(n) == Digits[n + 1]

\* ----------------------------------------------------------- cell values
\* A cell of a DataFrame is a Python str or a Python float (pandas.read_html
\* types numeric columns); n is the integral part, f the tenths.
Str(s) == [t |-> "str", s |-> s, n |-> 0, f |-> 0]
Float(n, f) == [t |-> "float", s |-> <<>>, n |-> n, f |-> f]

\* str(x): a float always shows its fractional part ("7.0")
PyStr(v) ==
    IF v.t = "str" THEN v.s ELSE <<Digit(v.n), ".", Digit(v.f)>>

\* What the sheet shows for a value written with the RAW input option and read
\* back as a formatted value: text verbatim, a number without a trailing ".0".
Displayed(v) ==
    IF v.t = "str" THEN v.s
    ELSE IF v.f = 0 THEN <<Digit(v.n)>>
    ELSE <<Digit(v.n), ".", Digit(v.f)>>

DisplayedRow(row_list) == [j \in 1..Len(row_list) |-> Displayed(row_list[j])]

\* ---------------------------------------------------------- the worksheet
\* values[k] is sheet row k (row 1 is the header row); rules are the sheet's
\* conditional-formatting rules, first rule first.
NoWorksheet == [exists |-> FALSE, values |-> <<>>, rules |-> <<>>]

\* sh.add_worksheet(title, rows=1000, cols=25)
add_worksheet(ws) == [exists |-> TRUE, values |-> <<>>, rules |-> <<>>]

\* the rows of the grid down to sheet row n: rows past the data are empty
grid(values, n) ==
    IF n > Len(values) THEN values \o [k \in 1..(n - Len(values)) |-> <<>>] ELSE values

\* ws.update(f"A{row_idx}", [row_list]): overwrite the leading cells of one row
update(ws, row_idx, row_list) ==
    LET grown == grid(ws.values, row_idx)
        old == grown[row_idx]
        new == [j \in 1..Max(Len(old), Len(row_list)) |->
                   IF j <= Len(row_list) THEN Displayed(row_list[j]) ELSE old[j]]
    IN [ws EXCEPT !.values = [grown EXCEPT ![row_idx] = new]]

\* the variant that writes the rows at `row` over what is there (an update
\* of the range in place of an insert)
insert_rows_overwriting(ws, rows, row) ==
    LET grown == grid(ws.values, row - 1)
    IN [ws EXCEPT !.values =
           SubSeq(grown, 1, row - 1)
           \o [k \in 1..Len(rows) |-> DisplayedRow(rows[k])]
           \o SubSeq(grown, row + Len(rows), Len(grown))]

\* the variant that puts the new rows below the data (an append at the end
\* of the sheet in place of an insert at row 2)
insert_rows_appending(ws, rows, row) ==
    LET grown == grid(ws.values, row - 1)
    IN [ws EXCEPT !.values = grown \o [k \in 1..Len(rows) |-> DisplayedRow(rows[k])]]

\* ws.insert_rows(rows, row): new rows at sheet row `row`, the rest pushed down
insert_rows(ws, rows, row) ==
    LET grown == grid(ws.values, row - 1)
    IN [ws EXCEPT !.values =
           SubSeq(grown, 1, row - 1)
           \o [k \in 1..Len(rows) |-> DisplayedRow(rows[k])]
           \o SubSeq(grown, row, Len(grown))]

\* ws.get_all_values()
get_all_values(ws) == ws.values

\* ws.get_values(f"A2:Z{last}")
get_values(ws, last) == SubSeq(ws.values, 2, Min(last, Len(ws.values)))

\* spreadsheet.batch_update({"requests": requests}): every request is an
\* addConditionalFormatRule at index 0, so each lands in front of the last
batch_update(ws, requests) ==
    [ws EXCEPT !.rules =
        [k \in 1..Len(requests) |-> requests[Len(requests) + 1 - k]] \o @]

\* -------------------------------------------------------------- transform
T_Sort == <<"_","S","o","r","t">>
S_Sort == <<" ","S","o","r","t">>

\* transform.clean_header_name / main.clean_header
clean_header_name(col_name) ==
    LET c == IF contains(col_name, T_Sort)
             THEN SubSeq(col_name, 1, find(col_name, T_Sort) - 1)
             ELSE IF contains(col_name, S_Sort)
             THEN SubSeq(col_name, 1, find(col_name, S_Sort) - 1)
             ELSE col_name
    IN rstrip(lstrip(c, {"_", " ", "."}), {"_", " ", "."})

Scraped_At_IST == <<"S","c","r","a","p","e","d","_","A","t","_","I","S","T">>

\* get_ist_time(): the capture time of a run, one text per run
get_ist_time(run) == <<"t", Digit(run)>>

\* transform.process_data, one table: headers cleaned, every cell turned into
\* its str (df.astype(str)), the capture time put in front.  The key labels of
\* the model hold none of 'Jan', 'Feb', 'Dec', 'th', 'st', so no Year column
\* is appended.
process_data(df, timestamp) ==
    [columns |-> <<Scraped_At_IST>>
                 \o [j \in 1..Len(df.columns) |-> clean_header_name(df.columns[j])],
     rows |-> [k \in 1..Len(df.rows) |->
                 <<Str(timestamp)>>
                 \o [j \in 1..Len(df.rows[k]) |-> Str(PyStr(df.rows[k][j]))]]]

\* main.run_bot, step A: headers cleaned, cells keep the type pandas gave them
\* (pd.to_numeric leaves a typed column alone), the capture time put in front
run_bot_transform(df, timestamp) ==
    [columns |-> <<Scraped_At_IST>>
                 \o [j \in 1..Len(df.columns) |-> clean_header_name(df.columns[j])],
     rows |-> [k \in 1..Len(df.rows) |-> <<Str(timestamp)>> \o df.rows[k]]]

NoData == <<"N","o"," ","d","a","t","a">>

\* the filter of extract.get_raw_data and of the loop head of main.run_bot
valid_df(df) ==
    /\ Len(df.rows) > 1
    /\ Len(df.columns) > 1
    /\ ~contains(PyStr(df.rows[1][1]), NoData)

\* 'date' in first_data_col or 'day' in first_data_col
is_history_table(df) ==
    LET first_data_col == IF Len(df.columns) > 1 THEN lower(df.columns[2]) ELSE <<>>
    IN \/ contains(first_data_col, <<"d","a","t","e">>)
       \/ contains(first_data_col, <<"d","a","y">>)

\* --------------------------------------------------------- calculate_year
IsDigit(c) == \E n \in 0..9 : Digits[n + 1] = c
DigitValue(c) == (CHOOSE n \in 1..10 : Digits[n] = c) - 1

\* re.sub(r'(\d+)(st|nd|rd|th)', r'\1', s): an ordinal suffix right after a
\* digit is dropped, the scan going on behind it
RECURSIVE strip_ordinal(_)
strip_ordinal(s) ==
    IF Len(s) < 3 THEN s
    ELSE IF IsDigit(s[1])
            /\ SubSeq(s, 2, 3) \in {<<"s","t">>, <<"n","d">>, <<"r","d">>, <<"t","h">>}
         THEN <<s[1]>> \o strip_ordinal(SubSeq(s, 4, Len(s)))
         ELSE <<s[1]>> \o strip_ordinal(Tail(s))

MonthAbbr == << <<"J","a","n">>, <<"F","e","b">>, <<"M","a","r">>, <<"A","p","r">>,
                <<"M","a","y">>, <<"J","u","n">>, <<"J","u","l">>, <<"A","u","g">>,
                <<"S","e","p">>, <<"O","c","t">>, <<"N","o","v">>, <<"D","e","c">> >>

IsLeap(y) == (y % 4 = 0 /\ y % 100 # 0) \/ y % 400 = 0

DaysInMonth(y, m) ==
    IF m = 2 THEN (IF IsLeap(y) THEN 29 ELSE 28)
    ELSE IF m \in {4, 6, 9, 11} THEN 30 ELSE 31

\* the length of the run of digits a text starts with
RECURSIVE digit_run(_)
digit_run(s) == IF s # <<>> /\ IsDigit(Head(s)) THEN 1 + digit_run(Tail(s)) ELSE 0

\* datetime.strptime(f"{clean_d} {current_year}", "%d %b %Y"): one or two
\* digits of a day 1..31, white space, a month abbreviation in any case, and
\* (before the year the code appends) nothing else; the day must exist in
\* that month of that year.  ok is FALSE where strptime raises ValueError.
strptime(clean_d, current_year) ==
    LET nd == digit_run(clean_d)
        day == IF nd = 1 THEN DigitValue(clean_d[1])
               ELSE IF nd = 2 THEN 10 * DigitValue(clean_d[1]) + DigitValue(clean_d[2])
               ELSE 0
        rest == SubSeq(clean_d, nd + 1, Len(clean_d))
        name == lower(lstrip(rest, {" "}))
        months == {m \in 1..12 : lower(MonthAbbr[m]) = name}
        month == IF months = {} THEN 0 ELSE CHOOSE m \in months : TRUE
    IN [ok |-> /\ nd \in {1, 2}
               /\ day >= 1
               /\ rest # <<>> /\ Head(rest) = " "
               /\ month # 0
               /\ day <= DaysInMonth(current_year, month),
        day |-> day, month |-> month]

\* the variant a slip in the condition would give: the current month not looked at
calculate_year_any_month(current_date, date_val) ==
    LET dt == strptime(strip_ordinal(strip(date_val)), current_date.year)
    IN IF ~dt.ok THEN current_date.year
       ELSE IF dt.month = 12 THEN current_date.year - 1
       ELSE current_date.year

\* transform.calculate_year / main.calculate_year, current_date = datetime.now()
calculate_year(current_date, date_val) ==
    LET dt == strptime(strip_ordinal(strip(date_val)), current_date.year)
    IN IF ~dt.ok THEN current_date.year
       ELSE IF current_date.month = 1 /\ dt.month = 12 THEN current_date.year - 1
       ELSE current_date.year

\* -------------------------------------------------------- apply_formatting
\* the rule table of apply_formatting, in the order the rules are added
FormatRules ==
    << [col |-> <<"4",".","5","r">>, type |-> "NUMBER_GREATER", value |-> 400, color |-> "yellow"],
       [col |-> <<"4",".","5","r">>, type |-> "NUMBER_GREATER", value |-> 200, color |-> "green"],
       [col |-> <<"4",".","5","r">>, type |-> "NUMBER_LESS", value |-> 50, color |-> "red"],
       [col |-> <<"2","0","r">>, type |-> "NUMBER_GREATER", value |-> 75, color |-> "green"],
       [col |-> <<"2","0","r">>, type |-> "NUMBER_LESS", value |-> 50, color |-> "red"],
       [col |-> <<"5","0","r">>, type |-> "NUMBER_GREATER", value |-> 85, color |-> "green"],
       [col |-> <<"5","0","r">>, type |-> "NUMBER_LESS", value |-> 60, color |-> "red"],
       [col |-> <<"4",".","5","c","h","g">>, type |-> "NUMBER_GREATER", value |-> 20, color |-> "green"],
       [col |-> <<"4",".","5","c","h","g">>, type |-> "NUMBER_LESS", value |-> -20, color |-> "red"],
       [col |-> <<"2","0","c","h","g">>, type |-> "NUMBER_GREATER", value |-> 20, color |-> "green"],
       [col |-> <<"2","0","c","h","g">>, type |-> "NUMBER_LESS", value |-> -20, color |-> "red"],
       [col |-> <<"5","0","c","h","g">>, type |-> "NUMBER_GREATER", value |-> 20, color |-> "green"],
       [col |-> <<"5","0","c","h","g">>, type |-> "NUMBER_LESS", value |-> -20, color |-> "red"],
       [col |-> <<"%","c","h">>, type |-> "NUMBER_GREATER", value |-> 20, color |-> "green"],
       [col |-> <<"%","c","h">>, type |-> "NUMBER_LESS", value |-> -20, color |-> "red"] >>

\* add_rule: idx = {name: i for i, name in enumerate(headers)} keeps the last
\* column of a name; a rule whose column is missing adds no request
format_requests(headers) ==
    LET has(r) == \E j \in 1..Len(headers) : headers[j] = r.col
        idx(r) == (CHOOSE j \in 1..Len(headers) :
                      /\ headers[j] = r.col
                      /\ \A q \in 1..Len(headers) : headers[q] = r.col => q <= j) - 1
        req(r) == [startColumnIndex |-> idx(r), endColumnIndex |-> idx(r) + 1,
                   type |-> r.type, value |-> r.value, color |-> r.color]
        picked == SelectSeq(FormatRules, has)
    IN [k \in 1..Len(picked) |-> req(picked[k])]

\* the variant without the try/except around the batch_update
apply_formatting_raising(ws, requests, fails) ==
    [ws |-> IF requests # <<>> /\ ~fails THEN batch_update(ws, requests) ELSE ws,
     raised |-> requests # <<>> /\ fails]

\* apply_formatting(worksheet, df): one batch_update when there are requests;
\* a failure of that call is caught inside (except Exception / bare except)
apply_formatting(ws, requests, fails) ==
    [ws |-> IF requests # <<>> /\ ~fails THEN batch_update(ws, requests) ELSE ws,
     raised |-> FALSE]

\* ------------------------------------------------------------ store calls
\* One call of the loop body on the store, in the order the code makes them.
Call(op, row, rows, requests) ==
    [op |-> op, row |-> row, rows |-> rows, requests |-> requests]

\* the variant that keeps the 0-based list index as the row number (idx in
\* place of idx + 1)
existing_map_zero_based(all_values) ==
    LET idxs == {k \in 2..Len(all_values) : Len(all_values[k]) > 1}
        keys == {strip(all_values[k][2]) : k \in idxs}
    IN [key \in keys |->
           (CHOOSE k \in idxs :
              /\ strip(all_values[k][2]) = key
              /\ \A q \in idxs : strip(all_values[q][2]) = key => q <= k) - 1]

\* existing_map of load.sync_data: trimmed key -> sheet row, the last row of a
\* key wins; rows shorter than two cells are skipped
existing_map(all_values) ==
    LET idxs == {k \in 2..Len(all_values) : Len(all_values[k]) > 1}
        keys == {strip(all_values[k][2]) : k \in idxs}
    IN [key \in keys |->
           CHOOSE k \in idxs :
              /\ strip(all_values[k][2]) = key
              /\ \A q \in idxs : strip(all_values[q][2]) = key => q <= k]

\* existing_map of main.run_bot: the same without the length guard
existing_map_main(all_val) ==
    LET idxs == 2..Len(all_val)
        keys == {strip(all_val[k][2]) : k \in idxs}
    IN [key \in keys |->
           CHOOSE k \in idxs :
              /\ strip(all_val[k][2]) = key
              /\ \A q \in idxs : strip(all_val[q][2]) = key => q <= k]

\* the variant that looks the key up as it stands in the cell, untrimmed
date_key_untrimmed(row_list) == PyStr(row_list[2])

\* date_key = str(row_list[1]).strip()
date_key(row_list) == strip(PyStr(row_list[2]))

\* Check for data change (ignoring timestamp): the row of the snapshot against
\* the str of every incoming cell but the first
data_changed(current_row, row_list) ==
    Tail(current_row) # [j \in 1..(Len(row_list) - 1) |-> PyStr(row_list[j + 1])]

\* the for-loop over df.iterrows(): the ws.update calls it makes, in order
RECURSIVE history_updates(_, _, _, _)
history_updates(all_values, emap, rows, k) ==
    IF k > Len(rows) THEN <<>>
    ELSE LET row_list == rows[k]
             key == date_key(row_list)
             here == IF key \in DOMAIN emap
                        /\ data_changed(all_values[emap[key]], row_list)
                     THEN <<Call("update", emap[key], <<row_list>>, <<>>)>>
                     ELSE <<>>
         IN here \o history_updates(all_values, emap, rows, k + 1)

\* the variant that inserts the new rows one at a time at row 2, which leaves
\* them in the reverse of the incoming order
rows_to_insert_reversed(emap, rows) ==
    LET ins == SelectSeq(rows, LAMBDA row_list : date_key(row_list) \notin DOMAIN emap)
    IN [k \in 1..Len(ins) |-> ins[Len(ins) + 1 - k]]

\* rows_to_insert: the incoming rows whose key the snapshot does not hold
rows_to_insert(emap, rows) ==
    SelectSeq(rows, LAMBDA row_list : date_key(row_list) \notin DOMAIN emap)

\* the variant that inserts the new rows before it overwrites the old ones,
\* with the row numbers of the snapshot
history_sync_insert_first(ws, df, emap) ==
    LET all_values == get_all_values(ws)
        ins == rows_to_insert(emap, df.rows)
    IN <<Call("get_all_values", 0, <<>>, <<>>)>>
       \o (IF ins # <<>> THEN <<Call("insert_rows", 2, ins, <<>>)>> ELSE <<>>)
       \o history_updates(all_values, emap, df.rows, 1)
       \o <<Call("apply_formatting", 0, <<>>, format_requests(df.columns))>>

\* the History branch after the header write
history_sync(ws, df, emap) ==
    LET all_values == get_all_values(ws)
        ins == rows_to_insert(emap, df.rows)
    IN <<Call("get_all_values", 0, <<>>, <<>>)>>
       \o history_updates(all_values, emap, df.rows, 1)
       \o (IF ins # <<>> THEN <<Call("insert_rows", 2, ins, <<>>)>> ELSE <<>>)
       \o <<Call("apply_formatting", 0, <<>>, format_requests(df.columns))>>

\* new_symbols = [str(s).strip() for s in df.iloc[:, 1]]
new_symbols(df) == [k \in 1..Len(df.rows) |-> strip(PyStr(df.rows[k][2]))]

\* the variant that reads the range from row 1 (A1:Z{len(df)}), header included
existing_symbols_from_header(ws, df) ==
    LET existing_rows == SubSeq(ws.values, 1, Min(Len(df.rows), Len(ws.values)))
        long == SelectSeq(existing_rows, LAMBDA row : Len(row) > 1)
    IN [k \in 1..Len(long) |-> strip(long[k][2])]

\* existing_symbols of load.sync_data: the keys of sheet rows 2..len(df)+1
existing_symbols(ws, df) ==
    LET existing_rows == get_values(ws, Len(df.rows) + 1)
        long == SelectSeq(existing_rows, LAMBDA row : Len(row) > 1)
    IN [k \in 1..Len(long) |-> strip(long[k][2])]

\* existing_symbols[:len(new_symbols)] of main.run_bot: the keys of sheet rows
\* 2..len(df)+50, cut to the length of the incoming list
existing_symbols_main(ws, df) ==
    LET rows == get_values(ws, Len(df.rows) + 50)
        syms == [k \in 1..Len(rows) |-> strip(rows[k][2])]
    IN SubSeq(syms, 1, Min(Len(df.rows), Len(syms)))

\* the variant that compares the two key lists as sets
scanner_sync_unordered(df, existing) ==
    <<Call("get_values", 0, <<>>, <<>>)>>
    \o (IF {new_symbols(df)[k] : k \in 1..Len(df.rows)}
           # {existing[k] : k \in 1..Len(existing)}
        THEN <<Call("insert_rows", 2, df.rows, <<>>),
               Call("apply_formatting", 0, <<>>, format_requests(df.columns))>>
        ELSE <<>>)

\* the Scanner branch after the header write
scanner_sync(df, existing) ==
    <<Call("get_values", 0, <<>>, <<>>)>>
    \o (IF new_symbols(df) # existing
        THEN <<Call("insert_rows", 2, df.rows, <<>>),
               Call("apply_formatting", 0, <<>>, format_requests(df.columns))>>
        ELSE <<>>)

\* the header row written by ws.update('A1', [df.columns.values.tolist()])
header_row(df) == [j \in 1..Len(df.columns) |-> Str(df.columns[j])]

\* what one call does to the worksheet when it succeeds
apply_call(ws, call) ==
    CASE call.op = "add_worksheet" -> add_worksheet(ws)
      [] call.op = "update" -> update(ws, call.row, call.rows[1])
      [] call.op = "insert_rows" -> insert_rows(ws, call.rows, call.row)
      [] call.op = "apply_formatting" -> apply_formatting(ws, call.requests, FALSE).ws
      [] OTHER -> ws

RECURSIVE run_calls(_, _, _)
run_calls(ws, calls, n) ==
    IF n = 0 THEN ws ELSE apply_call(run_calls(ws, calls, n - 1), calls[n])

\* sh.worksheet(tab_title), and sh.add_worksheet when the lookup fails
open_calls(ws) ==
    IF ws.exists
    THEN <<Call("worksheet", 0, <<>>, <<>>)>>
    ELSE <<Call("worksheet", 0, <<>>, <<>>), Call("add_worksheet", 0, <<>>, <<>>)>>

\* Force Update Headers: ws.update('A1', [df.columns.values.tolist()])
header_calls(df) == <<Call("update", 1, <<header_row(df)>>, <<>>)>>

\* the branch on is_history_table, on the sheet as the header write left it
branch_calls(variant, ws, df) ==
    IF is_history_table(df)
    THEN history_sync(ws, df,
            IF variant = "load"
            THEN existing_map(get_all_values(ws))
            ELSE existing_map_main(get_all_values(ws)))
    ELSE scanner_sync(df,
            IF variant = "load"
            THEN existing_symbols(ws, df)
            ELSE existing_symbols_main(ws, df))

\* the variant that writes the header after the rows of the table
table_calls_header_last(variant, ws, df) ==
    open_calls(ws)
    \o branch_calls(variant, run_calls(ws, open_calls(ws), Len(open_calls(ws))), df)
    \o header_calls(df)

\* The body of the loop over the tables, for one table: the store calls it
\* makes when none fails.  The reads see the sheet after the header write;
\* the updates use the row numbers of that snapshot and precede the insert.
table_calls(variant, ws, df) ==
    open_calls(ws) \o header_calls(df)
    \o branch_calls(variant,
                    run_calls(ws, open_calls(ws) \o header_calls(df),
                              Len(open_calls(ws)) + 1),
                    df)

\* The calls that can fail on their own: every call to the store, but the
\* lookup of a missing tab (its failure is the expected path to
\* add_worksheet) and an apply_formatting that has no request to send.
faultable(ws, calls) ==
    {n \in 1..Len(calls) :
        /\ ~(calls[n].op = "worksheet" /\ ~ws.exists)
        /\ ~(calls[n].op = "apply_formatting" /\ calls[n].requests = <<>>)}

\* The calls of one pass through the loop body carried out, call `fail` of
\* them failing (0: none).  A failure inside apply_formatting is decided by
\* apply_formatting; any other failure leaves the function through the loop,
\* nothing in sync_data or run_bot catches it.
carry_out(ws, calls, fail) ==
    IF fail # 0 /\ calls[fail].op = "apply_formatting"
    THEN [ws |-> apply_formatting(run_calls(ws, calls, fail - 1),
                                  calls[fail].requests, TRUE).ws,
          calls |-> calls, failed |-> fail, fmt_failed |-> TRUE,
          raised |-> apply_formatting(ws, calls[fail].requests, TRUE).raised]
    ELSE [ws |-> run_calls(ws, calls, IF fail = 0 THEN Len(calls) ELSE fail - 1),
          calls |-> calls, failed |-> fail, fmt_failed |-> FALSE,
          raised |-> fail # 0]

sync_table(variant, ws, df, fail) ==
    carry_out(ws, table_calls(variant, ws, df), fail)

\* ------------------------------------------------------------------ state
VARIABLES
    impl,       \* "load": extract.py + transform.py + load.py; "main": main.py
    sh,         \* the spreadsheet: tab number N (tab "Table_N") -> worksheet
    pc,         \* "idle", "loop" (inside the loop over the tables), "done", "raised"
    i,          \* the loop index, 1-based
    dfs,        \* the tables the loop runs over
    runs,       \* runs started so far; the capture time of the current run
    faults,     \* store calls that have failed so far
    sync,       \* history variable: the most recent execution of the loop body
    last,       \* history variable: per tab, the previous sync and snapshot block
    synced,     \* history variable: loop indices whose body completed in this run
    raised_at,  \* history variable: loop index whose body raised in this run, or 0
    fmt_failed_at, \* history variable: loop indices whose formatting call failed in this run
    fn          \* a call of a helper function: its arguments, and its result once returned

vars == <<impl, sh, pc, i, dfs, runs, faults, sync, last, synced, raised_at,
          fmt_failed_at, fn>>

MaxTables == 2
Tabs == 1..MaxTables

\* f"Table_{i+1}" for the 0-based Python index i, i.e. the 1-based index itself
tab_title(index) == index

NoSync ==
    [tab |-> 0, index |-> 0, kind |-> "none", df |-> [columns |-> <<>>, rows |-> <<>>],
     run |-> 0, before |-> NoWorksheet, calls |-> <<>>, failed |-> 0, fmt_failed |-> FALSE,
     raised |-> FALSE, repeat |-> FALSE, block |-> <<>>]

\* born: trimmed key of a data row -> the run in which the key came into the tab
NoLast == [synced |-> FALSE, ok |-> FALSE, data |-> <<>>, block |-> <<>>, born |-> <<>>]

\* the trimmed keys of the data rows of a sheet
keys_of(values) == {strip(values[k][2]) : k \in {q \in 2..Len(values) : Len(values[q]) > 1}}

\* the incoming rows without their capture time
data_of(df) == [k \in 1..Len(df.rows) |-> Tail(df.rows[k])]

NoCall == [name |-> "none", arg |-> <<>>, returned |-> FALSE, ret |-> 0]

\* the state before the first run
InitPipeline ==
    /\ impl \in {"load", "main"}
    /\ sh = [tab \in Tabs |-> NoWorksheet]
    /\ pc = "idle"
    /\ i = 1
    /\ dfs = <<>>
    /\ runs = 0
    /\ faults = 0
    /\ sync = NoSync
    /\ last = [tab \in Tabs |-> NoLast]
    /\ synced = {}
    /\ raised_at = 0
    /\ fmt_failed_at = {}

Init == InitPipeline /\ fn = NoCall

\* ---------------------------------------------------------------- actions
\* A run starts: the page is scraped.  load: get_raw_data keeps the valid
\* tables and process_data transforms them before sync_data loops over them;
\* main: run_bot loops over every parsed table.
StartRun(pages) ==
    /\ pc \in {"idle", "done", "raised"}
    /\ runs < MaxRuns
    /\ \E page \in pages :
          dfs' = IF impl = "load"
                 THEN LET valid_dfs == SelectSeq(page, valid_df)
                      IN [k \in 1..Len(valid_dfs) |->
                             process_data(valid_dfs[k], get_ist_time(runs + 1))]
                 ELSE page
    /\ runs' = runs + 1
    /\ pc' = "loop"
    /\ i' = 1
    /\ synced' = {}
    /\ raised_at' = 0
    /\ fmt_failed_at' = {}
    /\ UNCHANGED <<impl, sh, faults, sync, last, fn>>

\* the calls of a pass that were made: all of them, or up to the failing one
made(r) == SubSeq(r.calls, 1, IF r.failed = 0 THEN Len(r.calls) ELSE r.failed)

\* the calls of a pass that took effect
applied(calls, failed) == SubSeq(calls, 1, IF failed = 0 THEN Len(calls) ELSE failed - 1)

\* The effect of one pass through the loop body on the state: r is the
\* outcome of sync_table for table df on tab `tab`.
Commit(df, tab, r) ==
    /\ sh' = [sh EXCEPT ![tab] = r.ws]
    /\ sync' = [tab |-> tab, index |-> i,
                kind |-> IF is_history_table(df) THEN "history" ELSE "scanner",
                df |-> df, run |-> runs, before |-> sh[tab], calls |-> made(r),
                failed |-> r.failed, fmt_failed |-> r.fmt_failed,
                raised |-> r.raised,
                repeat |-> /\ last[tab].synced
                           /\ last[tab].ok
                           /\ last[tab].data = data_of(df),
                block |-> last[tab].block]
    /\ last' = [last EXCEPT ![tab] =
                   [synced |-> TRUE, ok |-> ~r.raised, data |-> data_of(df),
                    block |-> IF /\ ~is_history_table(df)
                                 /\ \E n \in 1..Len(applied(r.calls, r.failed)) :
                                       r.calls[n].op = "insert_rows"
                              THEN new_symbols(df)
                              ELSE @.block,
                    born |-> [key \in keys_of(r.ws.values) |->
                                 IF key \in DOMAIN last[tab].born
                                 THEN last[tab].born[key] ELSE runs]]]
    /\ faults' = IF r.failed = 0 THEN faults ELSE faults + 1
    /\ fmt_failed_at' = IF r.fmt_failed THEN fmt_failed_at \cup {i} ELSE fmt_failed_at
    /\ IF r.raised
       THEN /\ pc' = "raised"
            /\ raised_at' = i
            /\ UNCHANGED <<i, synced>>
       ELSE /\ i' = i + 1
            /\ synced' = synced \cup {i}
            /\ UNCHANGED <<pc, raised_at>>
    /\ UNCHANGED <<impl, dfs, runs, fn>>

\* the table of the pass as the loop body sees it
loop_df(variant, df, run) ==
    IF variant = "load" THEN df ELSE run_bot_transform(df, get_ist_time(run))

Pass(df, tab, calls, fail) ==
    /\ fail = 0 \/ fail \in faultable(sh[tab], calls)
    /\ Commit(df, tab, carry_out(sh[tab], calls, fail))

\* One pass through the loop body, call `fail` of it failing (0: none).
LoopBody(fail) ==
    /\ pc = "loop"
    /\ i <= Len(dfs)
    /\ IF impl = "main" /\ ~valid_df(dfs[i])
       THEN \* continue
            /\ fail = 0
            /\ i' = i + 1
            /\ UNCHANGED <<impl, sh, pc, dfs, runs, faults, sync, last, synced, raised_at,
                           fmt_failed_at, fn>>
       ELSE Pass(loop_df(impl, dfs[i], runs), tab_title(i),
                 table_calls(impl, sh[tab_title(i)], loop_df(impl, dfs[i], runs)), fail)

\* the loop body with every store call succeeding
SyncTable == LoopBody(0)

\* the loop body with one store call failing
SyncTableFault ==
    /\ faults < MaxFaults
    /\ pc = "loop"
    /\ i <= Len(dfs)
    /\ impl = "main" => valid_df(dfs[i])
    /\ \E fail \in faultable(sh[tab_title(i)],
                             table_calls(impl, sh[tab_title(i)],
                                         loop_df(impl, dfs[i], runs))) :
          LoopBody(fail)

\* the loop is over, the function returns
EndRun ==
    /\ pc = "loop"
    /\ i > Len(dfs)
    /\ pc' = "done"
    /\ UNCHANGED <<impl, sh, i, dfs, runs, faults, sync, last, synced, raised_at,
                   fmt_failed_at, fn>>

\* ------------------------------------------------------------ scraped pages
RawDate == <<"D","a","t","e","_","S","o","r","t">>
Raw20r == <<"2","0","r">>
RawSymbol == <<"S","y","m","b","o","l"," ","S","o","r","t">>
RawPctCh == <<"%","c","h">>

\* Every table of 2..MaxBatch rows over a set of rows, no key twice: a table
\* of the page lists a date or a symbol once.
Batches(rowset) ==
    {rows \in UNION {[1..n -> rowset] : n \in 2..MaxBatch} :
        \A a, b \in 1..Len(rows) : a # b => rows[a][1] # rows[b][1]}

HistoryRows ==
    {<<Str(k), m>> : k \in {<<"A">>, <<"B">>}, m \in {Float(7, 0), Float(7, 5)}}
    \cup {<<Str(<<"C">>), Float(7, 5)>>}

HistoryPages ==
    {<< [columns |-> <<RawDate, Raw20r>>, rows |-> rows] >> : rows \in Batches(HistoryRows)}

ScannerRows == {<<Str(k), Float(7, 5)>> : k \in {<<"A">>, <<"B">>, <<"C">>}}

ScannerPages ==
    {<< [columns |-> <<RawSymbol, RawPctCh>>, rows |-> rows] >> : rows \in Batches(ScannerRows)}

StartRunHistory == StartRun(HistoryPages)
StartRunScanner == StartRun(ScannerPages)

\* a page of one History table, no store failure
NextHistory == StartRunHistory \/ SyncTable \/ EndRun
SpecHistory == Init /\ [][NextHistory]_vars

\* a page of one Scanner table, no store failure
NextScanner == StartRunScanner \/ SyncTable \/ EndRun
SpecScanner == Init /\ [][NextScanner]_vars

\* a page of a History table, day A in its first row, and a Scanner table;
\* store calls may fail
RunHistoryRows == {<<Str(<<"A">>), Float(7, 5)>>, <<Str(<<"A">>), Float(7, 0)>>,
                   <<Str(<<"B">>), Float(7, 5)>>, <<Str(<<"C">>), Float(7, 5)>>}
RunScannerRows == {<<Str(k), Float(7, 5)>> : k \in {<<"A">>, <<"B">>}}

\* two rows of distinct keys
KeyedPairs(rowset) == {rows \in [1..2 -> rowset] : rows[1][1] # rows[2][1]}

RunPages ==
    {<< [columns |-> <<RawDate, Raw20r>>, rows |-> h],
        [columns |-> <<RawSymbol, RawPctCh>>, rows |-> s] >> :
        h \in {rows \in KeyedPairs(RunHistoryRows) : rows[1][1] = Str(<<"A">>)},
        s \in KeyedPairs(RunScannerRows)}

StartRunPage == StartRun(RunPages)

Next == StartRunPage \/ SyncTable \/ SyncTableFault \/ EndRun
Spec == Init /\ [][Next]_vars

\* ------------------------------------------------ calculate_year, called
Ordinal(day) ==
    IF day \in {1, 21, 31} THEN <<"s","t">>
    ELSE IF day \in {2, 22} THEN <<"n","d">>
    ELSE IF day \in {3, 23} THEN <<"r","d">>
    ELSE <<"t","h">>

DayText(day) ==
    IF day < 10 THEN <<Digit(day)>> ELSE <<Digit(day \div 10), Digit(day % 10)>>

\* a date cell of the page: "29th Dec", "29 Dec"
DateText(day, month, ordinal) ==
    DayText(day) \o (IF ordinal THEN Ordinal(day) ELSE <<>>) \o <<" ">> \o MonthAbbr[month]

YearCalls ==
    {[name |-> "calculate_year",
      arg |-> [current_date |-> [year |-> y, month |-> m, day |-> d],
               day |-> dd, month |-> mm, date_val |-> DateText(dd, mm, o)],
      returned |-> FALSE, ret |-> 0] :
        y \in {2024, 2026}, m \in 1..12, d \in {5, 28},
        dd \in {1, 2, 3, 15, 29, 31}, mm \in 1..12, o \in BOOLEAN}

InitYear == InitPipeline /\ fn \in YearCalls

CalculateYear ==
    /\ fn.name = "calculate_year"
    /\ ~fn.returned
    /\ fn' = [fn EXCEPT !.returned = TRUE,
                        !.ret = calculate_year(fn.arg.current_date, fn.arg.date_val)]
    /\ UNCHANGED <<impl, sh, pc, i, dfs, runs, faults, sync, last, synced, raised_at,
                   fmt_failed_at>>

NextYear == CalculateYear
SpecYear == InitYear /\ [][NextYear]_vars

\* ------------------------------------------- clean_header_name, called
MaxName == 3      \* most pieces of a raw column name

\* the pieces raw column names are put together from
NamePieces == {<<"A">>, <<"_">>, <<" ">>, <<".">>, T_Sort, S_Sort}

RECURSIVE Concat(_)
Concat(pieces) == IF pieces = <<>> THEN <<>> ELSE Head(pieces) \o Concat(Tail(pieces))

\* the raw column names of a page
RawNames == {Concat(pieces) : pieces \in UNION {[1..n -> NamePieces] : n \in 1..MaxName}}

HeaderCalls ==
    {[name |-> "clean_header_name", arg |-> [col_name |-> s, pass |-> 1],
      returned |-> FALSE, ret |-> <<>>] : s \in RawNames}

InitHeader == InitPipeline /\ fn \in HeaderCalls

\* df.columns = [clean_header_name(c) for c in df.columns]
CleanHeader ==
    /\ fn.name = "clean_header_name"
    /\ ~fn.returned
    /\ fn' = [fn EXCEPT !.returned = TRUE, !.ret = clean_header_name(fn.arg.col_name)]
    /\ UNCHANGED <<impl, sh, pc, i, dfs, runs, faults, sync, last, synced, raised_at,
                   fmt_failed_at>>

\* the cleaned name is cleaned once more
CleanHeaderAgain ==
    /\ fn.name = "clean_header_name"
    /\ fn.returned
    /\ fn.arg.pass = 1
    /\ fn' = [name |-> "clean_header_name", arg |-> [col_name |-> fn.ret, pass |-> 2],
              returned |-> FALSE, ret |-> <<>>]
    /\ UNCHANGED <<impl, sh, pc, i, dfs, runs, faults, sync, last, synced, raised_at,
                   fmt_failed_at>>

NextHeader == CleanHeader \/ CleanHeaderAgain
SpecHeader == InitHeader /\ [][NextHeader]_vars

\* ----------------------------------------------- get_raw_data, step by step
\* tables a dashboard page can show: a History table, a Scanner table, a
\* widget that reports "No data", and a table of a single row
NoDataTable ==
    [columns |-> <<RawSymbol, RawPctCh>>,
     rows |-> << <<Str(NoData), Str(<<>>)>>, <<Str(NoData), Str(<<>>)>> >>]

OneRowTable ==
    [columns |-> <<RawSymbol, RawPctCh>>, rows |-> << <<Str(<<"A">>), Float(7, 5)>> >>]

HistoryTable(rows) == [columns |-> <<RawDate, Raw20r>>, rows |-> rows]
ScannerTable(rows) == [columns |-> <<RawSymbol, RawPctCh>>, rows |-> rows]

PageTables ==
    {HistoryTable(<< <<Str(<<"A">>), Float(7, 5)>>, <<Str(<<"B">>), Float(7, 5)>> >>),
     ScannerTable(<< <<Str(<<"A">>), Float(7, 5)>>, <<Str(<<"B">>), Float(7, 5)>> >>),
     ScannerTable(<< <<Str(<<"B">>), Float(7, 5)>>, <<Str(<<"C">>), Float(7, 5)>> >>),
     NoDataTable, OneRowTable}

\* what pd.read_html finds in the page content: up to MaxTables tables, or none
ServedPages == UNION {[1..n -> PageTables] : n \in 0..MaxTables}

\* a call of get_raw_data: `at` is the statement about to run, browser the
\* state of the launched browser, pending what the function does once the
\* finally block and the async-with block are left
ExtractCalls ==
    {[name |-> "get_raw_data", arg |-> [page |-> page], returned |-> FALSE, ret |-> <<>>,
      at |-> "launch", browser |-> "none", playwright |-> "started",
      pending |-> "none", raised |-> FALSE] : page \in ServedPages}

InitExtract == InitPipeline /\ fn \in ExtractCalls

\* a statement of get_raw_data is about to run
At(stmt) == fn.name = "get_raw_data" /\ fn.at = stmt

KeepPipeline ==
    UNCHANGED <<impl, sh, pc, i, dfs, runs, faults, sync, last, synced, raised_at,
                fmt_failed_at>>

\* a statement outside the try block raises: the exception leaves the
\* function through the async-with block
Propagate == fn' = [fn EXCEPT !.at = "aexit", !.pending = "raise"]

\* browser = await p.chromium.launch(headless=True)
Launch ==
    /\ At("launch")
    /\ \E fails \in BOOLEAN :
          IF fails THEN Propagate
          ELSE fn' = [fn EXCEPT !.browser = "open", !.at = "new_context"]
    /\ KeepPipeline

\* context = await browser.new_context(user_agent=...)
NewContext ==
    /\ At("new_context")
    /\ \E fails \in BOOLEAN :
          IF fails THEN Propagate ELSE fn' = [fn EXCEPT !.at = "new_page"]
    /\ KeepPipeline

\* page = await context.new_page()
NewPage ==
    /\ At("new_page")
    /\ \E fails \in BOOLEAN :
          IF fails THEN Propagate ELSE fn' = [fn EXCEPT !.at = "goto"]
    /\ KeepPipeline

\* try: await page.goto(URL, timeout=60000)
Goto ==
    /\ At("goto")
    /\ \E fails \in BOOLEAN :
          fn' = [fn EXCEPT !.at = IF fails THEN "except" ELSE "wait_for_load_state"]
    /\ KeepPipeline

\* await page.wait_for_load_state('networkidle')
WaitForLoadState ==
    /\ At("wait_for_load_state")
    /\ \E fails \in BOOLEAN :
          fn' = [fn EXCEPT !.at = IF fails THEN "except" ELSE "wait_for_selector"]
    /\ KeepPipeline

\* try: await page.wait_for_selector("table", ...)  except: pass
WaitForSelector ==
    /\ At("wait_for_selector")
    /\ fn' = [fn EXCEPT !.at = "content"]
    /\ KeepPipeline

\* content = await page.content()
Content ==
    /\ At("content")
    /\ \E fails \in BOOLEAN :
          fn' = [fn EXCEPT !.at = IF fails THEN "except" ELSE "read_html"]
    /\ KeepPipeline

\* dfs = pd.read_html(content): ValueError when the content holds no table
ReadHtml ==
    /\ At("read_html")
    /\ fn' = [fn EXCEPT !.at = IF fn.arg.page = <<>> THEN "except" ELSE "filter"]
    /\ KeepPipeline

\* the filter loop and  return valid_dfs
Filter ==
    /\ At("filter")
    /\ fn' = [fn EXCEPT !.ret = SelectSeq(fn.arg.page, valid_df),
                        !.pending = "return", !.at = "finally"]
    /\ KeepPipeline

\* except Exception as e: ... return []
Except ==
    /\ At("except")
    /\ fn' = [fn EXCEPT !.ret = <<>>, !.pending = "return", !.at = "finally"]
    /\ KeepPipeline

\* finally: await browser.close()
Finally ==
    /\ At("finally")
    /\ fn' = [fn EXCEPT !.browser = "closed", !.at = "aexit"]
    /\ KeepPipeline

\* the async-with block is left: the function returns or the exception goes on
AExit ==
    /\ At("aexit")
    /\ fn' = [fn EXCEPT !.playwright = "stopped", !.at = "exit",
                        !.returned = (fn.pending = "return"),
                        !.raised = (fn.pending = "raise")]
    /\ KeepPipeline

NextExtract ==
    \/ Launch \/ NewContext \/ NewPage \/ Goto \/ WaitForLoadState \/ WaitForSelector
    \/ Content \/ ReadHtml \/ Filter \/ Except \/ Finally \/ AExit
SpecExtract == InitExtract /\ [][NextExtract]_vars

\* ------------------------------------------ pages that repeat a date
\* a History table may list a date twice
DuplicateRows ==
    {<<Str(<<"A">>), Float(7, 0)>>, <<Str(<<"A">>), Float(7, 5)>>,
     <<Str(<<"B">>), Float(7, 5)>>}

\* every table of 2..MaxBatch rows in which at most one pair of rows shares
\* its date
DuplicateBatches ==
    {rows \in UNION {[1..n -> DuplicateRows] : n \in 2..MaxBatch} :
        Cardinality({p \in (1..Len(rows)) \X (1..Len(rows)) :
                        p[1] < p[2] /\ rows[p[1]][1] = rows[p[2]][1]}) <= 1}

DuplicatePages == {<< HistoryTable(rows) >> : rows \in DuplicateBatches}

StartRunDuplicates == StartRun(DuplicatePages)

NextDuplicates == StartRunDuplicates \/ SyncTable \/ EndRun
SpecDuplicates == Init /\ [][NextDuplicates]_vars

\* ------------------------------- pages whose first table comes and goes
\* The dashboard shows a Scanner table first and a History table second; in
\* some runs the Scanner widget has no data or a single row.
FilteredPages ==
    {<<first, second>> :
        first \in {t \in PageTables : t.columns[1] = RawSymbol},
        second \in {HistoryTable(rows) : rows \in KeyedPairs(RunHistoryRows)}}

StartRunFiltered == StartRun(FilteredPages)

NextFiltered == StartRunFiltered \/ SyncTable \/ EndRun
SpecFiltered == Init /\ [][NextFiltered]_vars

\* ------------------------------------- pages with padded date cells
\* a date cell may carry white space around the date
PaddedRows ==
    {<<Str(<<"A">>), Float(7, 0)>>, <<Str(<<"A">>), Float(7, 5)>>,
     <<Str(<<" ","A">>), Float(7, 5)>>, <<Str(<<"B">>), Float(7, 5)>>,
     <<Str(<<"C">>), Float(7, 5)>>}

\* every table of 2..MaxBatch rows whose trimmed keys differ pairwise
TrimmedBatches(rowset) ==
    {rows \in UNION {[1..n -> rowset] : n \in 2..MaxBatch} :
        \A a, b \in 1..Len(rows) : a # b => strip(rows[a][1].s) # strip(rows[b][1].s)}

PaddedPages == {<< HistoryTable(rows) >> : rows \in TrimmedBatches(PaddedRows)}

StartRunPadded == StartRun(PaddedPages)

NextPadded == StartRunPadded \/ SyncTable \/ EndRun
SpecPadded == Init /\ [][NextPadded]_vars

\* ----------------------------------------------------- reading the history
\* The most recent pass of the loop body is in sync; the sheet it left is
\* sh[sync.tab], which no other step changes before the next pass.
Synced == sync.kind # "none"
Completed == Synced /\ ~sync.raised
After == sh[sync.tab].values
Before == sync.before.values

\* the calls of the most recent pass that took effect
Applied == applied(sync.calls, sync.failed)

\* the sheet rows overwritten in place by the most recent pass
UpdatedRows == {Applied[n].row : n \in {m \in 1..Len(Applied) :
                                          Applied[m].op = "update" /\ Applied[m].row > 1}}
Updates == Cardinality({n \in 1..Len(Applied) :
                           Applied[n].op = "update" /\ Applied[n].row > 1})
Inserts == Cardinality({n \in 1..Len(Applied) : Applied[n].op = "insert_rows"})

\* the trimmed key of a sheet row
KeyOf(row) == strip(row[2])

\* the data rows (sheet rows 2..) of a sheet
DataRows(values) == SubSeq(values, 2, Len(values))

\* how many data rows the most recent pass added in front of the old ones
Shift == Len(DataRows(After)) - Len(DataRows(Before))

\* C1 (as stated): a History sync that repeats the previous sync of the tab
\* with the same rows, capture time aside, inserts nothing, updates nothing in
\* place and leaves no key on two rows.
C1_HistoryIdempotent ==
    (Completed /\ sync.kind = "history" /\ sync.repeat) =>
        /\ Inserts = 0
        /\ Updates = 0
        /\ \A a, b \in 2..Len(After) : KeyOf(After[a]) = KeyOf(After[b]) => a = b

\* C2: a Scanner sync that repeats the previous sync of the tab with the same
\* rows leaves the sheet rows as the first sync left them and inserts nothing.
C2_ScannerIdempotent ==
    (Completed /\ sync.kind = "scanner" /\ sync.repeat) =>
        /\ After = Before
        /\ Inserts = 0

C2_Witness ==
    /\ Completed /\ sync.kind = "scanner" /\ sync.repeat
    /\ Len(Before) > 2
    /\ After = Before

\* C3: when exactly one sheet row holds key D and exactly one incoming row
\* holds D and differs from it outside the capture time, then after the
\* History sync that sheet row carries the incoming row's values, it and every
\* other old row keep their order (old row k is now row k + Shift), and no row
\* with key D was added.
C3_Pairs ==
    {<<k, n>> \in (2..Len(Before)) \X (1..Len(sync.df.rows)) :
        /\ KeyOf(Before[k]) = date_key(sync.df.rows[n])
        /\ \A q \in 2..Len(Before) : KeyOf(Before[q]) = KeyOf(Before[k]) => q = k
        /\ \A m \in 1..Len(sync.df.rows) :
              date_key(sync.df.rows[m]) = date_key(sync.df.rows[n]) => m = n
        /\ Tail(Before[k]) # Tail(DisplayedRow(sync.df.rows[n]))}

C3_UpsertInPlace ==
    (Completed /\ sync.kind = "history") =>
        \A p \in C3_Pairs :
            /\ Shift >= 0
            /\ After[p[1] + Shift] = DisplayedRow(sync.df.rows[p[2]])
            /\ \A q \in 2..Len(Before) : KeyOf(After[q + Shift]) = KeyOf(Before[q])
            /\ \A q \in 2..Len(After) :
                  KeyOf(After[q]) = KeyOf(Before[p[1]]) => q = p[1] + Shift

C3_Witness ==
    /\ Completed /\ sync.kind = "history"
    /\ C3_Pairs # {}
    /\ Shift > 0
    /\ Len(Before) > 2

\* C4: a sync of either kind, finished or cut short by a failing call, keeps
\* every old data row, in the old order, below the rows it adds, unchanged
\* unless the row was overwritten in place by this sync; the number of data
\* rows does not go down; and after a finished History sync every incoming
\* row whose key the sheet did not hold is in the sheet.
C4_NoDeletion ==
    Synced =>
        /\ Shift >= 0
        /\ \A q \in 2..Len(Before) :
              After[q + Shift] = Before[q] \/ q \in UpdatedRows
        /\ (Completed /\ sync.kind = "history") =>
              \A n \in 1..Len(sync.df.rows) :
                  (\A q \in 2..Len(Before) : KeyOf(Before[q]) # date_key(sync.df.rows[n]))
                  => \E q \in 2..Len(After) : After[q] = DisplayedRow(sync.df.rows[n])

C4_Witness ==
    /\ Completed /\ sync.kind = "history"
    /\ Shift > 0
    /\ UpdatedRows # {}
    /\ \E q \in 2..Len(Before) : q \notin UpdatedRows

\* the trimmed keys of the first n data rows of a sheet
TopKeys(values, n) ==
    [k \in 1..Min(n, Len(values) - 1) |-> KeyOf(values[k + 1])]

\* the sheet after the incoming rows went in as one block below the header
BlockOnTop ==
    /\ Inserts = 1
    /\ \E n \in 1..Len(Applied) :
          /\ Applied[n].op = "insert_rows"
          /\ Applied[n].row = 2
          /\ Applied[n].rows = sync.df.rows
    /\ After = <<DisplayedRow(header_row(sync.df))>>
               \o [k \in 1..Len(sync.df.rows) |-> DisplayedRow(sync.df.rows[k])]
               \o DataRows(Before)

\* C5: whenever the incoming key sequence differs from the key sequence of
\* the first len(incoming) data rows of the sheet, the same keys in another
\* order included, the Scanner sync inserts all incoming rows as one block at
\* row 2 and the old rows move down.
C5_ScannerChangeDetection ==
    (Completed /\ sync.kind = "scanner"
        /\ new_symbols(sync.df) # TopKeys(Before, Len(sync.df.rows)))
    => BlockOnTop

C5_Witness ==
    /\ Completed /\ sync.kind = "scanner"
    /\ LET old == TopKeys(Before, Len(sync.df.rows))
           new == new_symbols(sync.df)
       IN /\ old # new
          /\ Len(old) = Len(new)
          /\ {old[k] : k \in 1..Len(old)} = {new[k] : k \in 1..Len(new)}
    /\ BlockOnTop

\* C6 (as stated): when a store call fails while table raised_at is synced,
\* every later table of the run is still synced.
C6_BatchIsolation ==
    pc = "raised" => \A j \in (raised_at + 1)..Len(dfs) : j \in synced

\* C7 (as stated): a sync that repeats the previous sync of the tab with the
\* same data leaves the sheet with no more formatting rules and no more rows
\* than it found.
C7_NoRuleAccumulation ==
    (Completed /\ sync.repeat) =>
        /\ Len(sh[sync.tab].rules) <= Len(sync.before.rules)
        /\ Len(After) <= Len(Before)

\* C8 (as stated): whenever the incoming key sequence differs from the key
\* sequence of the most recently inserted snapshot block, an incoming strict
\* prefix of it included, the Scanner sync inserts the incoming snapshot as a
\* new block on top, the previous snapshot intact below it.
C8_ScannerSupersession ==
    (Completed /\ sync.kind = "scanner" /\ new_symbols(sync.df) # sync.block)
    => BlockOnTop

\* C9: when the formatting request fails, apply_formatting returns normally:
\* the pass does not raise, the row mutations it applied stay, the table
\* counts as synced and the loop goes on to the next table.
C9_FormatFailureAbsorbed ==
    /\ \A j \in fmt_failed_at : j \in synced /\ raised_at # j
    /\ sync.fmt_failed =>
          /\ ~sync.raised
          /\ (pc = "loop" /\ sync.run = runs) => i = sync.index + 1
          /\ sync.run = runs => pc # "raised"
          /\ After = run_calls(sync.before, sync.calls, sync.failed - 1).values
          /\ \A n \in 1..(sync.failed - 1) :
                sync.calls[n].op = "insert_rows" =>
                    SubSeq(After, 2, Len(sync.calls[n].rows) + 1)
                    = [k \in 1..Len(sync.calls[n].rows) |->
                          DisplayedRow(sync.calls[n].rows[k])]

C9_Witness ==
    /\ 1 \in fmt_failed_at
    /\ 2 \in synced
    /\ Len(sh[1].values) > 1
    /\ pc = "done"

\* the day of the year of a date
DayOfYear(y, m, d) ==
    LET before[k \in 0..12] == IF k = 0 THEN 0 ELSE before[k - 1] + DaysInMonth(y, k)
    IN before[m - 1] + d

\* a returned call of calculate_year whose day and month exist in the current year
YearParsable ==
    /\ fn.name = "calculate_year"
    /\ fn.returned
    /\ fn.arg.day <= DaysInMonth(fn.arg.current_date.year, fn.arg.month)

\* C10 (as stated): calculate_year returns the current year minus one exactly
\* when the day and month, placed in the current year, lie more than 30 days
\* after the current date, and the current year otherwise.
C10_YearByThirtyDays ==
    YearParsable =>
        LET now == fn.arg.current_date
            ahead == DayOfYear(now.year, fn.arg.month, fn.arg.day)
                     - DayOfYear(now.year, now.month, now.day)
        IN fn.ret = IF ahead > 30 THEN now.year - 1 ELSE now.year

\* C10 (what the code computes): calculate_year returns the current year minus
\* one exactly when the current month is January and the month of the value
\* is December, and the current year otherwise; a December value read in
\* February keeps the current year, eleven months ahead.
C10_YearByJanuaryDecember ==
    YearParsable =>
        LET now == fn.arg.current_date
        IN fn.ret = IF now.month = 1 /\ fn.arg.month = 12 THEN now.year - 1
                    ELSE now.year

\* current date 2026-01-05, "29th Dec": 2025
C10_Witness ==
    /\ YearParsable
    /\ fn.arg.current_date = [year |-> 2026, month |-> 1, day |-> 5]
    /\ fn.arg.date_val = <<"2","9","t","h"," ","D","e","c">>
    /\ fn.ret = 2025

\* C11 (as stated): cleaning a column name that clean_header_name returned
\* gives back the same name.
C11_HeaderCleanIdempotent ==
    (fn.name = "clean_header_name" /\ fn.returned /\ fn.arg.pass = 2)
    => fn.ret = fn.arg.col_name

\* get_raw_data has returned or let an exception out, the browser launched
Extracted ==
    /\ fn.name = "get_raw_data"
    /\ fn.at = "exit"
    /\ fn.browser # "none"

\* C12 (as stated): whenever get_raw_data returns or propagates after the
\* browser was launched, browser.close() has run.
C12_BrowserReleased == Extracted => fn.browser = "closed"

\* the calls the most recent pass issued (the failing one included) that write
\* the header row, and those that insert or overwrite data rows
HeaderWrites == {n \in 1..Len(sync.calls) : sync.calls[n].op = "update" /\ sync.calls[n].row = 1}
RowMutations ==
    {n \in 1..Len(sync.calls) :
        \/ sync.calls[n].op = "insert_rows"
        \/ sync.calls[n].op = "update" /\ sync.calls[n].row > 1}

\* the header the sheet held before the pass equals the header of the table
HeaderInPlace ==
    /\ Len(Before) >= 1
    /\ Before[1] = DisplayedRow(header_row(sync.df))

HeaderOnceFirst ==
    /\ Cardinality(HeaderWrites) <= 1
    /\ \A m \in RowMutations : \E n \in HeaderWrites : n < m

C14_Triples ==
    {<<k, m, n>> \in (2..Len(Before)) \X (1..Len(sync.df.rows)) \X (1..Len(sync.df.rows)) :
        /\ m < n
        /\ date_key(sync.df.rows[m]) = KeyOf(Before[k])
        /\ date_key(sync.df.rows[n]) = KeyOf(Before[k])
        /\ \A q \in (n + 1)..Len(sync.df.rows) :
              date_key(sync.df.rows[q]) # KeyOf(Before[k])
        /\ \A q \in 2..Len(Before) : KeyOf(Before[q]) = KeyOf(Before[k]) => q = k}

\* C14 (as stated): when two incoming rows of a History batch share a key the
\* sheet holds, the sheet row of that key shows, after the sync, the values of
\* the last of them.
C14_LastDuplicateWins ==
    (Completed /\ sync.kind = "history") =>
        \A t \in C14_Triples :
            Tail(After[t[1] + Shift]) = Tail(DisplayedRow(sync.df.rows[t[3]]))

\* the incoming rows of the most recent pass as the sheet shows them
IncomingShown == [k \in 1..Len(sync.df.rows) |-> DisplayedRow(sync.df.rows[k])]

\* C15: a completed sync of either kind on a tab that held no data rows (just
\* created, fully empty, or header only) leaves the data rows equal to the
\* incoming rows, in the incoming order, and overwrites no data row in place
\* (the only ws.update of the pass is the header write of row 1).
C15_Bootstrap ==
    (Completed /\ Len(Before) <= 1 /\ sync.df.rows # <<>>) =>
        /\ DataRows(After) = IncomingShown
        /\ Updates = 0

C15_Witness ==
    /\ Completed /\ sync.kind = "history"
    /\ sync.before.exists
    /\ Len(Before) = 1
    /\ Len(sync.df.rows) > 1
    /\ DataRows(After) = IncomingShown

\* the run whose capture time a sheet row carries
RunOf(row) == CHOOSE r \in 1..runs : get_ist_time(r) = row[1]

\* the insert calls of the most recent pass that took effect
InsertCalls == {n \in 1..Len(Applied) : Applied[n].op = "insert_rows"}

\* rows is a subsequence of all: the same rows in the same order
RECURSIVE IsSubSeq(_, _)
IsSubSeq(rows, all) ==
    IF rows = <<>> THEN TRUE
    ELSE IF all = <<>> THEN FALSE
    ELSE IF Head(rows) = Head(all) THEN IsSubSeq(Tail(rows), Tail(all))
    ELSE IsSubSeq(rows, Tail(all))

\* C16: a sync inserts by at most one insert call, at row 2, of incoming rows
\* in their incoming order, which then stand directly below the header above
\* every row the sheet held; so in every tab a row that came in with a later
\* run stands above every row that came in with an earlier run (History: by
\* the run in which the row's key entered the tab; Scanner: by the capture
\* time of the row, which no later sync rewrites).
C16_NewestFirst ==
    /\ Synced =>
          /\ Cardinality(InsertCalls) <= 1
          /\ \A n \in InsertCalls :
                /\ Applied[n].row = 2
                /\ IsSubSeq(Applied[n].rows, sync.df.rows)
                /\ SubSeq(After, 2, Len(Applied[n].rows) + 1)
                   = [k \in 1..Len(Applied[n].rows) |-> DisplayedRow(Applied[n].rows[k])]
                /\ Shift = Len(Applied[n].rows)
                /\ \A q \in 2..Len(Before) : KeyOf(After[q + Shift]) = KeyOf(Before[q])
    /\ \A tab \in Tabs :
          \A a, b \in 2..Len(sh[tab].values) :
              a < b =>
                 IF last[tab].block # <<>>
                 THEN RunOf(sh[tab].values[a]) >= RunOf(sh[tab].values[b])
                 ELSE last[tab].born[KeyOf(sh[tab].values[a])]
                      >= last[tab].born[KeyOf(sh[tab].values[b])]

C16_Witness ==
    /\ Completed /\ sync.kind = "history"
    /\ InsertCalls # {}
    /\ Updates > 0
    /\ \E a, b \in 2..Len(After) :
          /\ a < b
          /\ last[sync.tab].born[KeyOf(After[a])] > last[sync.tab].born[KeyOf(After[b])]

\* the calls of the most recent pass that changed data rows of the sheet
AppliedMutations ==
    {n \in 1..Len(Applied) :
        \/ Applied[n].op = "insert_rows"
        \/ Applied[n].op = "update" /\ Applied[n].row > 1}

\* C17 (as stated): in every sync that applied a row insertion or an in-place
\* update, a formatting request is sent to the store afterwards in the same
\* sync, also when a later store call of the sync fails.
C17_FormattingFollowsMutation ==
    Synced =>
        \A n \in AppliedMutations :
            \E m \in (n + 1)..Len(sync.calls) :
                /\ sync.calls[m].op = "apply_formatting"
                /\ sync.calls[m].requests # <<>>

\* the place on the page of the table of the most recent pass: on the pages
\* of FilteredPages the Scanner table stands first, the History table second
PagePosition == IF sync.kind = "history" THEN 2 ELSE 1

\* C18 (as stated): a table of the page is synced to the tab of its place on
\* the page in every run, also when the table before it is filtered out in
\* that run; a tab that took a Scanner block never carries the History table.
C18_StableTabs ==
    /\ Synced => sync.tab = tab_title(PagePosition)
    /\ \A tab \in Tabs :
          (last[tab].block # <<>> /\ Len(sh[tab].values) >= 1)
          => sh[tab].values[1] # <<Scraped_At_IST, <<"D","a","t","e">>, Raw20r>>

\* C19: under History syncs whose batches hold no trimmed key twice, no
\* trimmed key stands on two data rows of a tab.
C19_KeysUnique ==
    \A tab \in Tabs :
        \A a, b \in 2..Len(sh[tab].values) :
            KeyOf(sh[tab].values[a]) = KeyOf(sh[tab].values[b]) => a = b

\* a padded cell and an unpadded cell of one date met: the sheet row was
\* overwritten in place while another row was inserted
C19_Witness ==
    /\ Completed /\ sync.kind = "history"
    /\ Inserts = 1
    /\ \E q \in UpdatedRows :
          /\ Before[q][2] # After[q + Shift][2]
          /\ KeyOf(Before[q]) = KeyOf(After[q + Shift])

\* the calls issued by the most recent pass that overwrite a data row
UpdateCalls == {n \in 1..Len(sync.calls) : sync.calls[n].op = "update" /\ sync.calls[n].row > 1}

\* the sheet of the most recent pass as call n found it
SheetAt(n) == run_calls(sync.before, sync.calls, n - 1).values

\* C20: every in-place update of a History sync goes to a sheet row that, at
\* the moment of the write, holds the trimmed key of the incoming row being
\* written, and no insert of the same sync precedes it.
C20_UpdatesHitTheirRow ==
    (Synced /\ sync.kind = "history") =>
        \A n \in UpdateCalls :
            /\ sync.calls[n].row <= Len(SheetAt(n))
            /\ KeyOf(SheetAt(n)[sync.calls[n].row]) = date_key(sync.calls[n].rows[1])
            /\ \A m \in 1..(n - 1) : sync.calls[m].op # "insert_rows"

C20_Witness ==
    /\ Completed /\ sync.kind = "history"
    /\ Cardinality(UpdateCalls) >= 2
    /\ Inserts = 1
    /\ \E n \in UpdateCalls : sync.calls[n].row > 2

====
